---- MODULE Spec2Model ----
(***************************************************************************)
(* The conversation-graph page of static/script.js: displayAnalysisData    *)
(* hands graph data to initializeD3Graph, which prepares the node objects  *)
(* (root pin, qt_level clean-up, quote-tweet lines) and starts a d3 force  *)
(* simulation on them.  The simulation is driven by d3's timer, one tick   *)
(* per animation frame, until its alpha has decayed below alphaMin.        *)
(*                                                                         *)
(* Numbers are fixed point: a length is an integer number of 1/100 px,     *)
(* alpha an integer number of 1/10^7, a strength an integer number of      *)
(* 1/100 (FixedPoint below).  An absent JavaScript property is the empty   *)
(* sequence None, a present one the one-element sequence Some(v).          *)
(***************************************************************************)
EXTENDS Integers, Sequences, FiniteSets, TLC

VARIABLES
    viewport,   \* svg.node().getBoundingClientRect(): [width, height] in px
    engines,    \* the simulations created so far, oldest first
    svgError,   \* the svg shows "Error: Graph data is incomplete."
    thrown,     \* an exception has left initializeD3Graph ("" when none)
    circles,    \* node circles as drawn: the likes given and the r attribute
    springs,    \* links as forceLink measures them: end kinds, distance, strength
    walk,       \* the level walk of the backend over a record set
    ui          \* the page's elements, its analyze requests and its location

vars == <<viewport, engines, svgError, thrown, circles, springs, walk, ui>>

\* the page proper
page == <<viewport, engines, svgError, thrown, ui>>

\* what lies beside the page: the accessors of initializeD3Graph applied one
\* at a time, and the backend's level walk
parts == <<circles, springs, walk>>

----------------------------------------------------------------------------
(* Bounds of the model *)

\* nodes of a received graph
MaxNodes == 3

\* analyses displayed in the life of one page
MaxEngines == 2

\* keys of one cluster_details
MaxKeys == 2

\* Analyze clicks with a URL in the life of one page
MaxClicks == 2

\* characters typed into the URL field
MaxTyped == 2

\* every like count up to this one is drawn, and some larger ones
MaxSmallLikes == 16

\* circles, and links, looked at side by side
MaxCircles == 2

----------------------------------------------------------------------------
(* Arithmetic *)

FixedPoint == [px |-> 100, alpha |-> 10000000, strength |-> 100]

None == <<>>
Some(v) == <<v>>

Abs(a) == IF a < 0 THEN -a ELSE a
Max(a, b) == IF a >= b THEN a ELSE b
Min(a, b) == IF a <= b THEN a ELSE b
Sign(a) == IF a < 0 THEN -1 ELSE 1

\* a / b rounded toward zero, as a float product truncated to the grid
Div(a, b) == Sign(a) * Sign(b) * (Abs(a) \div Abs(b))

\* a * b / c for non-negative a, b and 0 < c < 2^26, without leaving 32 bits:
\* <<quotient, remainder>>, b taken four bits at a time
RECURSIVE MulDivNat(_, _, _)
MulDivNat(a, b, c) ==
    IF b = 0 THEN <<0, 0>>
    ELSE LET h == MulDivNat(a, b \div 16, c)
             t == 16 * h[2] + (b % 16) * (a % c)
         IN  <<16 * h[1] + (b % 16) * (a \div c) + t \div c, t % c>>

\* a * b / c rounded toward zero
MulDiv(a, b, c) ==
    LET s == Sign(a) * Sign(b) * Sign(c)
        x == Abs(a)
        y == Abs(b)
        z == Abs(c)
    IN  IF y = 0 \/ x <= 2147483647 \div y
        THEN s * ((x * y) \div z)
        ELSE s * MulDivNat(x, y, z)[1]

\* Newton's iteration for the integer square root, from x >= sqrt(n) down
RECURSIVE SqrtFrom(_, _)
SqrtFrom(n, x) ==
    LET y == (x + n \div x) \div 2 IN
    IF y >= x THEN x ELSE SqrtFrom(n, y)

\* the largest r with r * r <= n, for n >= 0
ISqrt(n) ==
    IF n = 0 THEN 0
    ELSE SqrtFrom(n, IF n < 256 THEN 16
                     ELSE IF n < 65536 THEN 256
                     ELSE IF n < 16777216 THEN 4096 ELSE 46341)

\* Math.sqrt(x * x + y * y): x and y are scaled down by 64 while their
\* squares would leave 32 bits
RECURSIVE Hypot(_, _)
Hypot(x, y) ==
    IF Abs(x) > 30000 \/ Abs(y) > 30000
    THEN 64 * Hypot(Div(x, 64), Div(y, 64))
    ELSE ISqrt(x * x + y * y)

----------------------------------------------------------------------------
(* The graph data a response can carry (d3_graph_data) *)

\* a conversation shape: element i describes node i+1 as <<type, parent>>,
\* the parent being an earlier node; node 1 is the main post
Shapes ==
    UNION { { s \in [1..(n - 1) -> {"reply", "quote_tweet"} \X (1..MaxNodes)] :
                \A i \in 1..(n - 1) : s[i][2] <= i } : n \in 1..MaxNodes }

ShapeType(s, i) == IF i = 1 THEN "main_post" ELSE s[i - 1][1]
ShapeParent(s, i) == s[i - 1][2]

\* level of node i as the graph builder derives it from the parent chain:
\* the root has level 0, a quote has its parent's level plus one when the
\* parent is a quote and level 1 otherwise, a reply has its parent's level
RECURSIVE WalkLevel(_, _)
WalkLevel(s, i) ==
    IF i = 1 THEN 0
    ELSE LET p == ShapeParent(s, i) IN
         IF ShapeType(s, i) = "quote_tweet"
         THEN IF ShapeType(s, p) = "quote_tweet" THEN WalkLevel(s, p) + 1 ELSE 1
         ELSE WalkLevel(s, p)

\* qt_level as the recursive fetch numbers it: 0 for the main post, its
\* replies and its direct quote tweets, 1 for quote tweets of those, ...
FetchLevel(s, i) == Max(0, WalkLevel(s, i) - 1)

LevelModes == {"walk", "fetch", "absent", "unset"}

\* the qt_level property of node i under a level mode; "unset" is the
\* backend's default of -1 for a tweet that carried no qt_level
QtLevelOf(s, i, mode) ==
    CASE mode = "walk"   -> Some(WalkLevel(s, i))
      [] mode = "fetch"  -> Some(FetchLevel(s, i))
      [] mode = "absent" -> None
      [] mode = "unset"  -> Some(-1)

\* like counts of the nodes, by position
SampleLikes == <<100, 0, 10000, 3, 40>>

Taggings == {"both", "type_only"}

\* node i of the data: "both" carries tweet_type and type, "type_only" only type
DataNode(s, i, tagging, mode) ==
    [ id         |-> i,
      tweet_type |-> IF tagging = "both" THEN ShapeType(s, i) ELSE "undefined",
      type       |-> ShapeType(s, i),
      qt_level   |-> QtLevelOf(s, i, mode),
      likes      |-> SampleLikes[i] ]

\* one link per non-root node, from its parent to it
DataLink(s, i) ==
    [ source       |-> ShapeParent(s, i),
      target       |-> i,
      relationship |-> IF ShapeType(s, i) = "quote_tweet" THEN "quotes" ELSE "reply" ]

ShapeSize(s) == Cardinality(DOMAIN s) + 1

\* levels records how the qt_level values of the data were numbered
WellFormed(s, tagging, mode) ==
    [ nodes  |-> [i \in 1..ShapeSize(s) |-> DataNode(s, i, tagging, mode)],
      links  |-> Some([i \in 1..(ShapeSize(s) - 1) |-> DataLink(s, i + 1)]),
      levels |-> mode ]

Defects == {"two_roots", "no_root", "dangling", "orphan", "no_links"}

\* well-formed data with one structural defect
Defective(s, defect) ==
    LET g == WellFormed(s, "both", "walk")
        n == ShapeSize(s)
    IN  CASE defect = "two_roots" ->
               [g EXCEPT !.nodes[n].tweet_type = "main_post", !.nodes[n].type = "main_post"]
          [] defect = "no_root" ->
               [g EXCEPT !.nodes[1].tweet_type = "reply", !.nodes[1].type = "reply"]
          [] defect = "dangling" ->
               [g EXCEPT !.links = Some(Append(g.links[1],
                    [source |-> n, target |-> n + 1, relationship |-> "reply"]))]
          [] defect = "orphan" ->
               IF n = 1 THEN g
               ELSE [g EXCEPT !.links[1][n - 1].source = n + 1]
          [] defect = "no_links" ->
               [g EXCEPT !.links = None]

Graphs ==
    { WellFormed(s, "both", m) : s \in Shapes, m \in LevelModes }
    \cup { WellFormed(s, t, "walk") : s \in Shapes, t \in Taggings }
    \cup { Defective(s, d) : s \in Shapes, d \in Defects }

\* the svg's box: a desktop and a phone layout, and the empty box of an svg
\* whose section an earlier "Graph visualization disabled" answer has hidden
Viewports ==
    { [width |-> 800, height |-> 600], [width |-> 375, height |-> 667],
      [width |-> 0, height |-> 0] }

----------------------------------------------------------------------------
(* initializeD3Graph: preparation of the node objects *)

\* graphData.nodes.find(n => n.tweet_type === 'main_post')?.id
mainPostId(nodes) ==
    LET roots == { i \in DOMAIN nodes : nodes[i].tweet_type = "main_post" } IN
    IF roots = {} THEN None
    ELSE Some(nodes[CHOOSE i \in roots : \A j \in roots : i <= j].id)

\* the vertical line of a quote tweet: Math.max(1, node.qt_level || 1) picks
\* the line, the first one at width * 2.0, each next one width * 2.0 further
QuoteLevel(qt_level) == Max(1, IF qt_level = 0 THEN 1 ELSE qt_level)

\* the quote lines counted from the middle of the view instead of its left edge
QuoteLineXFromMidpoint(level, width) ==
    Div(width * FixedPoint.px, 2) + width * 2 * FixedPoint.px
        + (level - 1) * width * 2 * FixedPoint.px

QuoteLineX(level, width) ==
    IF level = 1 THEN width * 2 * FixedPoint.px
    ELSE width * 2 * FixedPoint.px + (level - 1) * width * 2 * FixedPoint.px

\* a preparation that fixes the main post and nothing else
PrepareNodeRootOnly(node, mpid, width, height) ==
    LET pinned == Some(node.id) = mpid
    IN  [ id         |-> node.id,
          tweet_type |-> node.tweet_type,
          type       |-> node.type,
          likes      |-> node.likes,
          qt_level   |-> IF node.qt_level = None THEN 0 ELSE node.qt_level[1],
          fx         |-> IF pinned THEN Some(Div(width * FixedPoint.px, 2)) ELSE None,
          fy         |-> IF pinned THEN Some(Div(height * FixedPoint.px, 2)) ELSE None ]

\* one pass of the graphData.nodes.forEach body over a node as received
PrepareNode(node, mpid, width, height) ==
    LET pinned == Some(node.id) = mpid
        level  == IF node.qt_level = None THEN 0 ELSE node.qt_level[1]
    IN  [ id         |-> node.id,
          tweet_type |-> node.tweet_type,
          type       |-> node.type,
          likes      |-> node.likes,
          qt_level   |-> level,
          fx         |-> IF node.type = "quote_tweet"
                         THEN Some(QuoteLineX(QuoteLevel(level), width))
                         ELSE IF pinned THEN Some(Div(width * FixedPoint.px, 2))
                         ELSE None,
          fy         |-> IF pinned THEN Some(Div(height * FixedPoint.px, 2)) ELSE None ]

----------------------------------------------------------------------------
(* initializeD3Graph: the accessors handed to the d3 forces *)

\* forceLink distance, between the node objects at the ends of a link
LinkDistance(source, target) ==
    FixedPoint.px *
    ( IF source.tweet_type = "main_post"
      THEN (IF target.tweet_type = "quote_tweet" THEN 180 ELSE 120)
      ELSE IF source.tweet_type = "quote_tweet"
      THEN (IF target.tweet_type = "reply" THEN 70
            ELSE IF target.tweet_type = "quote_tweet" THEN 150 ELSE 80)
      ELSE 80 )

\* one strength for every link
LinkStrengthFlat(source, target) == 40

\* forceLink strength, in 1/100
LinkStrength(source, target) ==
    IF source.tweet_type = "main_post" \/ target.tweet_type = "main_post"
    THEN 70 ELSE 40

\* forceManyBody strength
ChargeStrength(d) ==
    CASE d.type = "main_post"   -> -1000
      [] d.type = "quote_tweet" -> -400
      [] d.type = "reply"       -> -100
      [] OTHER                  -> -300

\* forceX target
ForceXTarget(d, width) ==
    IF d.fx # None THEN d.fx[1]
    ELSE IF d.type = "reply" /\ d.qt_level # 0 /\ d.qt_level > 0
    THEN width * 2 * FixedPoint.px + (d.qt_level - 1) * width * 2 * FixedPoint.px
    ELSE Div(width * FixedPoint.px, 2)

\* forceX strength, in 1/100
ForceXStrength(d) ==
    IF d.fx # None THEN 1
    ELSE IF d.type = "reply"
    THEN (IF d.qt_level # 0 /\ d.qt_level > 0 THEN 100 ELSE 30)
    ELSE 10

\* forceY target
ForceYTarget(d, height) == Div(height * FixedPoint.px, 2)

\* forceY strength, in 1/100
ForceYStrength(d) == IF d.tweet_type = "main_post" THEN 100 ELSE 5

\* floor(log2(n)) for n >= 1
RECURSIVE FloorLog2(_)
FloorLog2(n) == IF n < 2 THEN 0 ELSE 1 + FloorLog2(n \div 2)

RECURSIVE Pow2(_)
Pow2(k) == IF k = 0 THEN 1 ELSE 2 * Pow2(k - 1)

\* the fraction bits of log2: m is the mantissa in 1/10000 (10000 <= m < 20000),
\* squared once per bit; the result counts 1/2^bits
RECURSIVE Log2Fraction(_, _)
Log2Fraction(m, bits) ==
    IF bits = 0 THEN 0
    ELSE LET sq == (m * m) \div 10000 IN
         IF sq >= 20000
         THEN Pow2(bits - 1) + Log2Fraction(sq \div 2, bits - 1)
         ELSE Log2Fraction(sq, bits - 1)

\* Math.log2(n) in 1/1024, for n >= 1
Log2(n) ==
    LET k == FloorLog2(n) IN
    1024 * k + Log2Fraction(MulDiv(n, 10000, Pow2(k)), 10)

\* a radius that grows with the likes without the Math.min
getNodeRadiusUnclamped(likes) ==
    5 * FixedPoint.px + MulDiv(Log2(likes + 1), 150, 1024)

\* getNodeRadius(likes)
getNodeRadius(likes) ==
    LET baseRadius  == 5 * FixedPoint.px
        maxRadius   == 20 * FixedPoint.px
        scaledLikes == Log2(likes + 1)
    IN  Min(baseRadius + MulDiv(scaledLikes, 150, 1024), maxRadius)

\* a collision force that keeps no distance at all
CollideRadiusNone(d) == 0

\* forceCollide radius
CollideRadius(d) == getNodeRadius(d.likes) + 8 * FixedPoint.px

\* JavaScript values of a likes property, and the numbers computed from them:
\* v is the number (a length in 1/100 px for a radius), the digits of a
\* "string", and 0 for the kinds that carry none
Number(n) == [t |-> "number", v |-> n]
NaN == [t |-> "NaN", v |-> 0]
NegInfinity == [t |-> "-Infinity", v |-> 0]
Undefined == [t |-> "undefined", v |-> 0]
Null == [t |-> "null", v |-> 0]
DigitString(n) == [t |-> "string", v |-> n]
Text == [t |-> "text", v |-> 0]

\* getNodeRadius(d.likes) on any likes value, as the r attribute of a circle:
\* likes + 1 is 1 for null, NaN for undefined and for text, the digits with a
\* 1 appended for a string of digits; Math.log2 is -Infinity at 0 and NaN
\* below; Math.min keeps NaN and -Infinity
RadiusAttr(likes) ==
    CASE likes.t = "number" /\ likes.v >= 0 -> Number(getNodeRadius(likes.v))
      [] likes.t = "number" /\ likes.v = -1 -> NegInfinity
      [] likes.t = "number" /\ likes.v < -1 -> NaN
      [] likes.t = "null"                   -> Number(getNodeRadius(0))
      [] likes.t = "string"                 -> Number(getNodeRadius(likes.v * 10))
      [] OTHER                              -> NaN

\* getNodeRadius(d.likes) + 8 on any likes value, as forceCollide takes it
CollideAttr(likes) ==
    LET r == RadiusAttr(likes)
    IN  IF r.t = "number" THEN Number(r.v + 8 * FixedPoint.px) ELSE r

----------------------------------------------------------------------------
(* d3.forceSimulation as initializeD3Graph configures it: the defaults of   *)
(* the simulation (alpha 1, alphaMin 0.001, alphaDecay 1 - 0.001^(1/300),   *)
(* alphaTarget 0, velocityDecay 0.6) and the five forces link, charge, x,   *)
(* y, collision, applied in that order on every tick                       *)

\* alphaMin, in 1/10^7
AlphaMin == 10000

\* alphaDecay, in 1/10^6
AlphaDecay == 22763

\* 1 - velocityDecay, in 1/10: node.vx *= 0.6
VelocityKeep == 6

\* a simulation reheated with alphaTarget 0.3 and never cooled again
NextAlphaReheated(alpha) ==
    alpha + MulDiv(3000000 - alpha, AlphaDecay, 1000000)

\* alpha += (alphaTarget - alpha) * alphaDecay with alphaTarget 0; the product
\* is rounded up: in d3's doubles the 300th alpha is 0.000999999999999997
NextAlpha(alpha) ==
    LET hi == alpha \div 1000
        lo == alpha % 1000
        n  == hi * AlphaDecay + (lo * AlphaDecay + 999) \div 1000
    IN  alpha - (n + 999) \div 1000

\* initializeNodes: the phyllotaxis positions of the nodes in array order,
\* radius 10 * sqrt(0.5 + i) at angle i * pi * (3 - sqrt(5)) for index i = 0, 1, ...
Phyllotaxis ==
    << <<707, 0>>, <<-903, 827>>, <<138, -1575>>, <<1138, 1485>>,
       <<-2089, -369>>, <<1979, -1259>> >>

\* initializeNodes on a prepared node: a node with both coordinates fixed
\* starts there, any other node at its phyllotaxis position, at rest
InitializeNode(node, i) ==
    LET fixed == node.fx # None /\ node.fy # None IN
    [ id |-> node.id, tweet_type |-> node.tweet_type, type |-> node.type,
      likes |-> node.likes, qt_level |-> node.qt_level,
      fx |-> node.fx, fy |-> node.fy,
      x  |-> IF fixed THEN node.fx[1] ELSE Phyllotaxis[i][1],
      y  |-> IF fixed THEN node.fy[1] ELSE Phyllotaxis[i][2],
      vx |-> 0, vy |-> 0 ]

\* what the forces keep per node when they are initialized: each accessor is
\* called once per node, on registration of its force
ForceParams(node, width, height) ==
    [ charge |-> ChargeStrength(node),
      xz     |-> ForceXTarget(node, width),
      xs     |-> ForceXStrength(node),
      yz     |-> ForceYTarget(node, height),
      ys     |-> ForceYStrength(node),
      radius |-> CollideRadius(node) ]

\* forceLink's find(nodeById, id): the index of the node with that id, 0 when
\* there is none ("node not found")
FindNode(nodes, id) ==
    IF \E i \in DOMAIN nodes : nodes[i].id = id
    THEN CHOOSE i \in DOMAIN nodes : nodes[i].id = id
    ELSE 0

\* jiggle: two coincident points are taken one unit apart along x
JiggleX(x, y) == IF x = 0 /\ y = 0 THEN 1 ELSE x

\* number of link ends at node i (forceLink's count)
RECURSIVE LinkCount(_, _, _)
LinkCount(links, i, k) ==
    IF k = 0 THEN 0
    ELSE LinkCount(links, i, k - 1)
         + (IF links[k].source = i THEN 1 ELSE 0)
         + (IF links[k].target = i THEN 1 ELSE 0)

\* x * strength * alpha
Scaled(x, strength, alpha) ==
    MulDiv(MulDiv(x, strength, FixedPoint.strength), alpha, FixedPoint.alpha)

\* the link force on link k: a spring toward the link's distance, shared
\* between the ends by their link counts
ApplyLink(nodes, links, k, alpha) ==
    LET s    == nodes[links[k].source]
        t    == nodes[links[k].target]
        y    == t.y + t.vy - s.y - s.vy
        x    == JiggleX(t.x + t.vx - s.x - s.vx, y)
        l    == Hypot(x, y)
        str  == links[k].strength
        dist == links[k].distance
        px   == Scaled(MulDiv(x, l - dist, l), str, alpha)
        py   == Scaled(MulDiv(y, l - dist, l), str, alpha)
        cs   == links[k].sourceCount
        ct   == links[k].targetCount
        bx   == MulDiv(px, cs, cs + ct)
        by   == MulDiv(py, cs, cs + ct)
        n1   == [nodes EXCEPT ![links[k].target].vx = @ - bx,
                              ![links[k].target].vy = @ - by]
    IN  [n1 EXCEPT ![links[k].source].vx = @ + (px - bx),
                   ![links[k].source].vy = @ + (py - by)]

RECURSIVE ApplyLinks(_, _, _, _)
ApplyLinks(nodes, links, k, alpha) ==
    IF k > Len(links) THEN nodes
    ELSE ApplyLinks(ApplyLink(nodes, links, k, alpha), links, k + 1, alpha)

\* the pull of node j on node i along one axis: d * strength(j) * alpha / l
\* with l the squared distance, or the distance itself below distanceMin (1 px);
\* every pair is summed (theta 0)
ChargePull(d, dist, strength, alpha) ==
    LET sa == MulDiv(strength * 1000, alpha, FixedPoint.alpha)
        u  == MulDiv(d, sa, dist)
    IN  IF dist < FixedPoint.px THEN Div(u, 10) ELSE MulDiv(u, 10, dist)

RECURSIVE ChargeOn(_, _, _, _, _)
ChargeOn(nodes, params, i, j, alpha) ==
    IF j = 0 THEN <<0, 0>>
    ELSE LET rest == ChargeOn(nodes, params, i, j - 1, alpha) IN
         IF j = i THEN rest
         ELSE LET y == nodes[j].y - nodes[i].y
                  x == JiggleX(nodes[j].x - nodes[i].x, y)
                  l == Hypot(x, y)
                  c == params[j].charge
              IN  <<rest[1] + ChargePull(x, l, c, alpha),
                    rest[2] + ChargePull(y, l, c, alpha)>>

ApplyCharge(nodes, params, alpha) ==
    [i \in DOMAIN nodes |->
        LET f == ChargeOn(nodes, params, i, Len(nodes), alpha) IN
        [nodes[i] EXCEPT !.vx = @ + f[1], !.vy = @ + f[2]]]

\* forceX: node.vx += (xz - node.x) * strength * alpha
ApplyForceX(nodes, params, alpha) ==
    [i \in DOMAIN nodes |->
        [nodes[i] EXCEPT !.vx = @ + Scaled(params[i].xz - nodes[i].x, params[i].xs, alpha)]]

\* forceY: node.vy += (yz - node.y) * strength * alpha
ApplyForceY(nodes, params, alpha) ==
    [i \in DOMAIN nodes |->
        [nodes[i] EXCEPT !.vy = @ + Scaled(params[i].yz - nodes[i].y, params[i].ys, alpha)]]

\* the collision of node i, met at <<xi, yi>>, with a later node j: when the
\* circles overlap both are pushed apart, the smaller one more
Collide(nodes, params, i, j, xi, yi) ==
    LET y   == yi - nodes[j].y - nodes[j].vy
        x   == JiggleX(xi - nodes[j].x - nodes[j].vx, y)
        l   == Hypot(x, y)
        ri  == params[i].radius
        rj  == params[j].radius
        px  == MulDiv(x, ri + rj - l, l)
        py  == MulDiv(y, ri + rj - l, l)
        bx  == MulDiv(px, rj * rj, ri * ri + rj * rj)
        by  == MulDiv(py, rj * rj, ri * ri + rj * rj)
    IN  IF l >= ri + rj THEN nodes
        ELSE [nodes EXCEPT ![i].vx = @ + bx, ![i].vy = @ + by,
                           ![j].vx = @ - (px - bx), ![j].vy = @ - (py - by)]

RECURSIVE CollideFrom(_, _, _, _, _, _)
CollideFrom(nodes, params, i, j, xi, yi) ==
    IF j > Len(nodes) THEN nodes
    ELSE CollideFrom(Collide(nodes, params, i, j, xi, yi), params, i, j + 1, xi, yi)

RECURSIVE ApplyCollide(_, _, _)
ApplyCollide(nodes, params, i) ==
    IF i > Len(nodes) THEN nodes
    ELSE ApplyCollide(
            CollideFrom(nodes, params, i, i + 1,
                        nodes[i].x + nodes[i].vx, nodes[i].y + nodes[i].vy),
            params, i + 1)

\* the end of a tick: a free coordinate moves by its decayed velocity, a
\* fixed one is put at fx / fy with no velocity
\* a position update that moves every node by its velocity, fixed or not
IntegrateFree(node) ==
    LET vx == Div(node.vx * VelocityKeep, 10)
        vy == Div(node.vy * VelocityKeep, 10)
    IN  [node EXCEPT !.vx = vx, !.vy = vy, !.x = node.x + vx, !.y = node.y + vy]

Integrate(node) ==
    LET vx == IF node.fx = None THEN Div(node.vx * VelocityKeep, 10) ELSE 0
        vy == IF node.fy = None THEN Div(node.vy * VelocityKeep, 10) ELSE 0
    IN  [node EXCEPT !.vx = vx, !.vy = vy,
                     !.x = IF node.fx = None THEN node.x + vx ELSE node.fx[1],
                     !.y = IF node.fy = None THEN node.y + vy ELSE node.fy[1]]

\* simulation.tick(): alpha decays, the forces add to the velocities, the
\* nodes move; a simulation whose link force failed to initialize has no force
Tick(e) ==
    LET alpha  == NextAlpha(e.alpha)
        linked == ApplyLinks(e.nodes, e.links, 1, alpha)
        pulled == ApplyForceY(ApplyForceX(ApplyCharge(linked, e.params, alpha),
                                          e.params, alpha),
                              e.params, alpha)
        forced == IF e.forces THEN ApplyCollide(pulled, e.params, 1) ELSE e.nodes
    IN  [e EXCEPT !.alpha = alpha,
                  !.nodes = [i \in DOMAIN forced |-> Integrate(forced[i])]]

\* every node of the simulation is at rest: the kinetic energy is 0
AtRest(e) == \A i \in DOMAIN e.nodes : e.nodes[i].vx = 0 /\ e.nodes[i].vy = 0

\* the "tick" listener: cx and cy of every circle set from its node's x and y;
\* no listener is registered when forceLink threw
Ticked(e, nodes) ==
    IF e.forces THEN [i \in DOMAIN nodes |-> <<nodes[i].x, nodes[i].y>>] ELSE e.drawn

\* a step that also stops the timer once the nodes are at rest
StepUntilAtRest(e) ==
    LET t == Tick(e) IN
    [t EXCEPT !.ticks = @ + 1, !.running = ~(t.alpha < AlphaMin \/ AtRest(t)),
              !.drawn = Ticked(e, t.nodes)]

\* a step whose listener runs while the tick is under way: the first node has
\* moved, the others have not yet
StepDrawnMidTick(e) ==
    LET t == Tick(e) IN
    [t EXCEPT !.ticks = @ + 1, !.running = ~(t.alpha < AlphaMin),
              !.drawn = Ticked(e, [i \in DOMAIN e.nodes |->
                                      IF i = 1 THEN t.nodes[i] ELSE e.nodes[i]])]

\* the timer callback step(): one tick, the "tick" event, and the timer is
\* stopped once alpha < alphaMin
Step(e) ==
    LET t == Tick(e) IN
    [t EXCEPT !.ticks = @ + 1, !.running = ~(t.alpha < AlphaMin),
              !.drawn = Ticked(e, t.nodes)]

\* forceLink's initialize: the ends of every link resolved to nodes (kept as
\* indexes), with the link's distance, strength and the link counts of its ends
ResolveLinks(nodes, links) ==
    LET ends == [k \in DOMAIN links |->
                    [source |-> FindNode(nodes, links[k].source),
                     target |-> FindNode(nodes, links[k].target)]]
    IN  [k \in DOMAIN links |->
            [source      |-> ends[k].source,
             target      |-> ends[k].target,
             distance    |-> LinkDistance(nodes[ends[k].source], nodes[ends[k].target]),
             strength    |-> LinkStrength(nodes[ends[k].source], nodes[ends[k].target]),
             sourceCount |-> LinkCount(ends, ends[k].source, Len(ends)),
             targetCount |-> LinkCount(ends, ends[k].target, Len(ends))]]

\* forceLink throws "node not found" on a link end that is no node id
NodeNotFound(nodes, links) ==
    \E k \in DOMAIN links :
        FindNode(nodes, links[k].source) = 0 \/ FindNode(nodes, links[k].target) = 0

\* the simulation initializeD3Graph leaves behind for complete graph data:
\* the nodes prepared and placed, the timer started; the forces are missing
\* when forceLink threw, which ends initializeD3Graph before any is registered.
\* nodes are the node objects of the received data themselves, as the page and
\* d3 have written them; data keeps the nodes and links as they were received
\* and the numbering of the received levels
CreateEngine(g, vp) ==
    LET mpid     == mainPostId(g.nodes)
        prepared == [i \in DOMAIN g.nodes |->
                        PrepareNode(g.nodes[i], mpid, vp.width, vp.height)]
        nodes    == [i \in DOMAIN prepared |-> InitializeNode(prepared[i], i)]
        bad      == NodeNotFound(nodes, g.links[1])
    IN  [ nodes   |-> nodes,
          data    |-> [nodes |-> g.nodes, links |-> g.links[1], levels |-> g.levels],
          links   |-> IF bad THEN <<>> ELSE ResolveLinks(nodes, g.links[1]),
          params  |-> [i \in DOMAIN nodes |-> ForceParams(nodes[i], vp.width, vp.height)],
          mainPostId |-> mpid,
          width   |-> vp.width,
          height  |-> vp.height,
          alpha   |-> FixedPoint.alpha,
          ticks   |-> 0,
          running |-> TRUE,
          forces  |-> ~bad,
          drawn   |-> <<>> ]

----------------------------------------------------------------------------
(* The level walk of the backend: from a record up its parent references,   *)
(* with the set of records already visited as its guard against cycles     *)

\* no walk has started
NoWalk == [parents |-> <<>>, path |-> <<>>, done |-> FALSE, cut |-> FALSE]

\* parent references of MaxNodes records: 0 for a record without parent, any
\* record otherwise, itself and cycles included
ParentRefs == [1..MaxNodes -> 0..MaxNodes]

\* the records visited by the walk
Visited == { walk.path[k] : k \in DOMAIN walk.path }

\* the walk starts at a record of a record set
StartWalk ==
    /\ walk = NoWalk
    /\ \E parents \in ParentRefs : \E start \in 1..MaxNodes :
          walk' = [parents |-> parents, path |-> <<start>>, done |-> FALSE, cut |-> FALSE]
    /\ UNCHANGED <<page, circles, springs>>

\* a walk that follows the parent reference whether or not it was there before
ClimbUnguarded ==
    /\ walk # NoWalk /\ ~walk.done
    /\ LET parent == walk.parents[walk.path[Len(walk.path)]]
       IN  walk' = IF parent = 0 THEN [walk EXCEPT !.done = TRUE]
                   ELSE [walk EXCEPT !.path = Append(@, parent)]
    /\ UNCHANGED <<page, circles, springs>>

\* one step up: the walk ends at a record without parent, and is cut at a
\* record whose parent it has visited already
Climb ==
    /\ walk # NoWalk /\ ~walk.done
    /\ LET parent == walk.parents[walk.path[Len(walk.path)]]
       IN  walk' = IF parent = 0 THEN [walk EXCEPT !.done = TRUE]
                   ELSE IF parent \in Visited
                   THEN [walk EXCEPT !.done = TRUE, !.cut = TRUE]
                   ELSE [walk EXCEPT !.path = Append(@, parent)]
    /\ UNCHANGED <<page, circles, springs>>

----------------------------------------------------------------------------
(* The elements of the page and the functions that show and hide them *)

\* the svg's box in the desktop layout, and the empty box it has while its
\* section is not displayed
Layout == [width |-> 800, height |-> 600]
NoBox == [width |-> 0, height |-> 0]

\* #clusters-columns-container without content
EmptyContainer == [notice |-> FALSE, clusters |-> <<>>]

\* the document as index.html has it before DOMContentLoaded: the loading
\* indicator and the error message hidden, the results container and the
\* graph section displayed, nothing rendered, no request made.  shown is the
\* request whose analysis is rendered, cluster_details and graph what the
\* latest displayed analysis carried, event the handler that ran last and
\* request the request it ran for
Document ==
    [ ready     |-> FALSE,
      loading   |-> FALSE,
      error     |-> FALSE,
      message   |-> "",
      results   |-> TRUE,
      section   |-> TRUE,
      shown     |-> None,
      container |-> EmptyContainer,
      cluster_details |-> None,
      graph     |-> "none",
      requests  |-> <<>>,
      location  |-> None,
      gone      |-> FALSE,
      event     |-> "parse",
      request   |-> 0 ]

showLoading(u, isLoading) == [u EXCEPT !.loading = isLoading]

showError(u, message) == [u EXCEPT !.error = TRUE, !.message = message]

hideError(u) == [u EXCEPT !.error = FALSE]

clearResults(u) ==
    [u EXCEPT !.shown = None, !.container = EmptyContainer, !.results = FALSE]

sentimentOrder == <<"positive", "neutral", "negative">>
agreementOrder == <<"agrees", "neutral", "disagrees">>

\* `${sentiment}_${agreement}` in the order of the two nested forEach loops
StandardClusters ==
    [k \in 1..(Len(sentimentOrder) * Len(agreementOrder)) |->
        sentimentOrder[((k - 1) \div Len(agreementOrder)) + 1] \o "_"
            \o agreementOrder[((k - 1) % Len(agreementOrder)) + 1]]

\* displayedStandardKeys.has(clusterName)
IsStandard(clusterName) ==
    \E k \in DOMAIN StandardClusters : StandardClusters[k] = clusterName

\* tweetCount of the cluster named so: the tweets of cluster_details, 0 for a
\* standard cluster the data does not have
TweetCount(clusterDetails, clusterName) ==
    LET ks == { k \in DOMAIN clusterDetails : clusterDetails[k].name = clusterName }
    IN  IF ks = {} THEN 0 ELSE clusterDetails[CHOOSE k \in ks : TRUE].tweets

\* the names displayClusters renders, in its order: the standard clusters,
\* then the other keys in the order of Object.keys
RenderedNames(clusterDetails) ==
    StandardClusters \o
        [k \in DOMAIN SelectSeq(clusterDetails, LAMBDA c : ~IsStandard(c.name)) |->
            SelectSeq(clusterDetails, LAMBDA c : ~IsStandard(c.name))[k].name]

\* the cluster columns one call builds: tweet-list-${displayIndex++} from 0,
\* the button "Show Replies", the list display: none
ClusterColumns(clusterDetails) ==
    LET names == RenderedNames(clusterDetails)
    IN  [k \in DOMAIN names |->
            [ name      |-> names[k],
              tweets    |-> TweetCount(clusterDetails, names[k]),
              id        |-> k - 1,
              label     |-> "Show Replies",
              listShown |-> FALSE,
              listeners |-> 0 ]]

\* document.querySelectorAll('.toggle-tweets-btn').forEach(addEventListener)
ListenersAdded(columns) ==
    [k \in DOMAIN columns |-> [columns[k] EXCEPT !.listeners = @ + 1]]

\* a displayClusters that appends to the columns already in the container
displayClustersAppending(container, clusterDetails) ==
    IF clusterDetails = None
    THEN [notice |-> TRUE, clusters |-> <<>>]
    ELSE [notice   |-> FALSE,
          clusters |-> ListenersAdded(container.clusters \o ClusterColumns(clusterDetails[1]))]

\* displayClusters(clusterDetails) on the container: the container is
\* emptied first; without cluster_details it holds the notice only
displayClusters(container, clusterDetails) ==
    IF clusterDetails = None
    THEN [notice |-> TRUE, clusters |-> <<>>]
    ELSE [notice   |-> FALSE,
          clusters |-> ListenersAdded(ClusterColumns(clusterDetails[1]))]

\* document.getElementById(targetId): the first element with that id
TargetList(columns, k) ==
    CHOOSE j \in DOMAIN columns :
        /\ columns[j].id = columns[k].id
        /\ \A i \in DOMAIN columns : columns[i].id = columns[k].id => j <= i

\* a click listener that flips the list and leaves the label as it is
ToggleLabelKept(columns, k) ==
    LET j == TargetList(columns, k)
    IN  [columns EXCEPT ![j].listShown = ~columns[j].listShown]

\* one run of the click listener of button k
Toggle(columns, k) ==
    LET j        == TargetList(columns, k)
        isHidden == ~columns[j].listShown
        flipped  == [columns EXCEPT ![j].listShown = isHidden]
    IN  [flipped EXCEPT ![k].label = IF isHidden THEN "Hide Replies" ELSE "Show Replies"]

\* a click on button k: each of its listeners runs once
RECURSIVE Clicked(_, _, _)
Clicked(columns, k, n) ==
    IF n = 0 THEN columns ELSE Clicked(Toggle(columns, k), k, n - 1)

\* cluster_details of the analyses displayed in the graph specifications
SampleClusterDetails ==
    Some(<< [name |-> "positive_agrees", tweets |-> 2], [name |-> "other", tweets |-> 1] >>)

\* analysisData with complete graph data g
Analysis(g) ==
    [ graph |-> "valid", d3_graph_data |-> g, cluster_details |-> SampleClusterDetails ]

----------------------------------------------------------------------------
(* The page *)

Init ==
    /\ viewport \in Viewports
    /\ engines = <<>>
    /\ svgError = FALSE
    /\ thrown = ""
    /\ circles = <<>>
    /\ springs = <<>>
    /\ walk = NoWalk
    /\ ui = [Document EXCEPT !.ready = TRUE, !.results = FALSE,
                             !.section = (viewport # NoBox), !.event = "load"]

\* initializeD3Graph(graphData, graphMetrics)
initializeD3Graph(g) ==
    IF g.links = None
    THEN /\ svgError' = TRUE
         /\ thrown' = ""
         /\ UNCHANGED <<viewport, engines>>
    ELSE /\ svgError' = FALSE
         /\ engines' = Append(engines, CreateEngine(g, viewport))
         /\ thrown' = IF NodeNotFound(g.nodes, g.links[1]) THEN "node not found" ELSE ""
         /\ UNCHANGED viewport

\* displayAnalysisData(analysisData) on the page u, for the analysis of
\* request id (0: the preloaded one).  What initializeD3Graph throws ends the
\* caller too: the try block of handleAnalyzeClick ("click") catches it and
\* shows it, the DOMContentLoaded handler ("load") is left before it has
\* registered the click listener of the Analyze button
displayAnalysisData(u, analysisData, id, caller) ==
    IF analysisData = None
    THEN /\ ui' = [showError(u, "No analysis data received.") EXCEPT !.results = FALSE]
         /\ UNCHANGED <<viewport, engines, svgError, thrown>>
    ELSE LET a == analysisData[1]
             rendered == [u EXCEPT !.results = TRUE,
                                   !.shown = Some(id),
                                   !.container = displayClusters(u.container, a.cluster_details),
                                   !.cluster_details = a.cluster_details,
                                   !.graph = a.graph]
         IN  CASE a.graph = "valid" ->
                    /\ initializeD3Graph(a.d3_graph_data)
                    /\ ui' = IF thrown' = "" THEN rendered
                             ELSE IF caller = "click"
                             THEN showError(showLoading(rendered, FALSE), "Request failed")
                             ELSE IF caller = "load"
                             THEN [rendered EXCEPT !.ready = FALSE]
                             ELSE rendered
               [] a.graph = "disabled" ->
                    /\ ui' = [rendered EXCEPT !.section = FALSE]
                    /\ viewport' = NoBox
                    /\ UNCHANGED <<engines, svgError, thrown>>
               [] OTHER ->
                    /\ ui' = [rendered EXCEPT !.section = TRUE]
                    /\ viewport' = IF u.section THEN viewport ELSE Layout
                    /\ svgError' = TRUE
                    /\ UNCHANGED <<engines, thrown>>

\* the first analysis of the page is displayed
Display ==
    /\ engines = <<>>
    /\ ~svgError
    /\ \E g \in Graphs :
          displayAnalysisData([ui EXCEPT !.event = "display"], Some(Analysis(g)), 0, "display")
    /\ UNCHANGED parts

\* a frame in which the simulations work on the node objects of the newest one
FrameCoupled ==
    /\ \E i \in DOMAIN engines : engines[i].running
    /\ engines' = [i \in DOMAIN engines |->
                      IF engines[i].running
                      THEN [Step(engines[i]) EXCEPT
                               !.nodes = Step(engines[Len(engines)]).nodes]
                      ELSE engines[i]]
    /\ UNCHANGED <<viewport, svgError, thrown, ui>>
    /\ UNCHANGED parts

\* one animation frame: d3's timer loop calls step() of every simulation
\* whose timer is still active, oldest first
Frame ==
    /\ \E i \in DOMAIN engines : engines[i].running
    /\ engines' = [i \in DOMAIN engines |->
                      IF engines[i].running THEN Step(engines[i]) ELSE engines[i]]
    /\ UNCHANGED <<viewport, svgError, thrown, ui>>
    /\ UNCHANGED parts

Next == Display \/ Frame

Spec == Init /\ [][Next]_vars

\* A page that displays one analysis after another (the preloaded one, then
\* the responses that carry no view_url): a main post with one reply each
PageGraphs ==
    { WellFormed(s, "both", "walk") :
        s \in { t \in Shapes : ShapeSize(t) = 2 /\ ShapeType(t, 2) = "reply" } }

PageInit ==
    /\ viewport = [width |-> 800, height |-> 600]
    /\ engines = <<>>
    /\ svgError = FALSE
    /\ thrown = ""
    /\ circles = <<>>
    /\ springs = <<>>
    /\ walk = NoWalk
    /\ ui = [Document EXCEPT !.ready = TRUE, !.results = FALSE, !.event = "load"]

\* displayAnalysisData with graph data, at any moment of the page's life
Redisplay ==
    /\ Len(engines) < MaxEngines
    /\ \E g \in PageGraphs :
          displayAnalysisData([ui EXCEPT !.event = "display"], Some(Analysis(g)),
                              Len(engines), "display")
    /\ UNCHANGED parts

PageNext == Redisplay \/ Frame

PageSpec == PageInit /\ [][PageNext]_vars

----------------------------------------------------------------------------
(* The node circles: getNodeRadius over the likes a node may carry *)

LikeCounts ==
    (0..MaxSmallLikes)
        \cup {31, 32, 63, 64, 100, 255, 256, 1000, 1022, 1023, 1024, 1025, 5000, 10000, 1000000}

\* likes as the data may carry them: counts, and the degraded values
LikesValues ==
    { Number(n) : n \in LikeCounts }
        \cup { Number(-1), Number(-5), Undefined, Null, Text, DigitString(0), DigitString(12) }

\* one more circle is appended for a node: .attr("r", ...) and the collision radius
DrawCircle ==
    /\ Len(circles) < MaxCircles
    /\ \E likes \in LikesValues :
          circles' = Append(circles, [likes   |-> likes,
                                      r       |-> RadiusAttr(likes),
                                      collide |-> CollideAttr(likes)])
    /\ UNCHANGED <<page, springs, walk>>

RadiusSpec == Init /\ [][DrawCircle]_vars

----------------------------------------------------------------------------
(* The links: forceLink's distance and strength over the kinds of their ends *)

\* tweet_type of a link end; "undefined" for a node that carries none
EndKinds == {"main_post", "reply", "quote_tweet", "undefined"}

\* one more link is measured: its distance and strength accessors are called
\* on the node objects at its ends
MeasureLink ==
    /\ Len(springs) < MaxCircles
    /\ \E s, t \in EndKinds :
          springs' = Append(springs,
              [source   |-> s,
               target   |-> t,
               distance |-> LinkDistance([tweet_type |-> s], [tweet_type |-> t]),
               strength |-> LinkStrength([tweet_type |-> s], [tweet_type |-> t])])
    /\ UNCHANGED <<page, circles, walk>>

SpringSpec == Init /\ [][MeasureLink]_vars

\* the backend's level walk on its own
WalkNext == StartWalk \/ Climb

WalkSpec == Init /\ [][WalkNext]_vars

----------------------------------------------------------------------------
(* The cluster columns: displayClusters over the cluster_details an analysis *)
(* may carry, and clicks on the toggle buttons it renders                   *)

\* keys of cluster_details: a standard cluster and two others
ClusterKeys == {"positive_agrees", "other", "sarcastic"}

\* a cluster object of the data: its name is its key, tweets the length of
\* its tweets array
ClusterObject(key) == [name |-> key, tweets |-> IF key = "other" THEN 1 ELSE 2]

\* cluster_details as the data may carry it: absent, or up to MaxKeys keys in
\* the order of Object.keys
ClusterDetails ==
    {None}
    \cup { Some([k \in 1..Len(keys) |-> ClusterObject(keys[k])]) :
             keys \in { q \in UNION { [1..n -> ClusterKeys] : n \in 0..MaxKeys } :
                          \A i, j \in DOMAIN q : i # j => q[i] # q[j] } }

\* a call of displayClusters, on whatever the container holds
DisplayClusters ==
    /\ \E d \in ClusterDetails :
          ui' = [ui EXCEPT !.container = displayClusters(ui.container, d),
                           !.cluster_details = d,
                           !.event = "clusters"]
    /\ UNCHANGED <<viewport, engines, svgError, thrown, parts>>

\* a click on a toggle button
ToggleClick ==
    /\ \E k \in DOMAIN ui.container.clusters :
          ui' = [ui EXCEPT !.container.clusters =
                               Clicked(@, k, ui.container.clusters[k].listeners),
                           !.event = "toggle"]
    /\ UNCHANGED <<viewport, engines, svgError, thrown, parts>>

ClusterNext == DisplayClusters \/ ToggleClick

ClusterSpec == PageInit /\ [][ClusterNext]_vars

----------------------------------------------------------------------------
(* The Analyze button: clicks, the requests they send and the responses,    *)
(* in any interleaving.  A request is at "fetch" until fetch settles, then  *)
(* at "body" or "error_body" until response.json() settles, then "done".    *)
(* The frames of the simulations touch none of the elements and are left    *)
(* to the specifications above.                                             *)

\* graph data of the analyses: a main post with a reply, well formed and
\* with a link to a node that is not there
UiGraphs ==
    PageGraphs
    \cup { Defective(s, "dangling") :
             s \in { t \in Shapes : ShapeSize(t) = 2 /\ ShapeType(t, 2) = "reply" } }

\* d3_graph_data that is not displayed
NoGraph == [nodes |-> <<>>, links |-> None, levels |-> "absent"]

\* analysisData as preloaded or as data.data of a response: with graph data,
\* with status "Graph visualization disabled", or without graph data
UiAnalyses ==
    { Analysis(g) : g \in UiGraphs }
    \cup { [graph |-> k, d3_graph_data |-> NoGraph, cluster_details |-> SampleClusterDetails] :
             k \in {"disabled", "missing"} }

UiInit ==
    /\ viewport = Layout
    /\ engines = <<>>
    /\ svgError = FALSE
    /\ thrown = ""
    /\ circles = <<>>
    /\ springs = <<>>
    /\ walk = NoWalk
    /\ ui = Document

\* the DOMContentLoaded handler: the preloaded analysis is displayed, or the
\* results container hidden; then the click listener is registered
Load ==
    /\ ui.event = "parse"
    /\ \E preloaded \in {None} \cup { Some(a) : a \in UiAnalyses } :
          IF preloaded # None
          THEN displayAnalysisData(
                   hideError(showLoading([ui EXCEPT !.ready = TRUE, !.event = "load"], FALSE)),
                   preloaded, 0, "load")
          ELSE /\ ui' = [ui EXCEPT !.ready = TRUE, !.event = "load", !.results = FALSE]
               /\ UNCHANGED <<viewport, engines, svgError, thrown>>
    /\ UNCHANGED parts

\* what the user may have typed into #tweetUrlInput: up to MaxTyped
\* characters, white space or not
Typed == {" ", "\n", "u"}
Inputs == UNION { [1..n -> Typed] : n \in 0..MaxTyped }

WhiteSpace(c) == c \in {" ", "\n"}

\* String.prototype.trim: the white space at both ends removed
RECURSIVE TrimStart(_)
TrimStart(str) ==
    IF str # <<>> /\ WhiteSpace(Head(str)) THEN TrimStart(Tail(str)) ELSE str

RECURSIVE TrimEnd(_)
TrimEnd(str) ==
    IF str # <<>> /\ WhiteSpace(str[Len(str)])
    THEN TrimEnd(SubSeq(str, 1, Len(str) - 1))
    ELSE str

Trim(str) == TrimEnd(TrimStart(str))

\* a click handler that clears the results before it looks at the URL
handleAnalyzeClickClearing(input) ==
    /\ ui.ready /\ ~ui.gone
    /\ LET tweetUrl == Trim(input) IN
       IF tweetUrl = <<>>
       THEN ui' = [clearResults(showError(ui, "Please enter a Tweet URL."))
                      EXCEPT !.event = "empty_click"]
       ELSE /\ Len(ui.requests) < MaxClicks
            /\ ui' = [clearResults(hideError(showLoading(ui, TRUE)))
                         EXCEPT !.requests = Append(@, "fetch"),
                                !.event = "click",
                                !.request = Len(ui.requests) + 1]
    /\ UNCHANGED <<viewport, engines, svgError, thrown, parts>>

\* handleAnalyzeClick up to its await fetch: with an empty URL the error is
\* shown and the handler returns; with a URL the request is sent
handleAnalyzeClick(input) ==
    /\ ui.ready /\ ~ui.gone
    /\ LET tweetUrl == Trim(input) IN
       IF tweetUrl = <<>>
       THEN ui' = [showError(ui, "Please enter a Tweet URL.") EXCEPT !.event = "empty_click"]
       ELSE /\ Len(ui.requests) < MaxClicks
            /\ ui' = [clearResults(hideError(showLoading(ui, TRUE)))
                         EXCEPT !.requests = Append(@, "fetch"),
                                !.event = "click",
                                !.request = Len(ui.requests) + 1]
    /\ UNCHANGED <<viewport, engines, svgError, thrown, parts>>

\* fetch settles, with a catch block that leaves the loading indicator alone
FetchSettlesLoadingKept(i) ==
    /\ i \in DOMAIN ui.requests /\ ui.requests[i] = "fetch"
    /\ LET u == [ui EXCEPT !.event = "fetch", !.request = i]
       IN  \/ ui' = [showError(u, "Request failed") EXCEPT !.requests[i] = "done"]
           \/ ui' = [showLoading(u, FALSE) EXCEPT !.requests[i] = "error_body"]
           \/ ui' = [showLoading(u, FALSE) EXCEPT !.requests[i] = "body"]
    /\ UNCHANGED <<viewport, engines, svgError, thrown, parts>>

\* the fetch of request i settles: it rejects (network failure) and the catch
\* block runs, or it resolves with a response whose ok is false or true
FetchSettles(i) ==
    /\ i \in DOMAIN ui.requests /\ ui.requests[i] = "fetch"
    /\ LET u == [ui EXCEPT !.event = "fetch", !.request = i]
       IN  \/ ui' = [showError(showLoading(u, FALSE), "Request failed")
                        EXCEPT !.requests[i] = "done"]
           \/ ui' = [showLoading(u, FALSE) EXCEPT !.requests[i] = "error_body"]
           \/ ui' = [showLoading(u, FALSE) EXCEPT !.requests[i] = "body"]
    /\ UNCHANGED <<viewport, engines, svgError, thrown, parts>>

\* the body of a response with an HTTP error status is read: its error field
\* is shown, or the status when the body has none or cannot be parsed
ErrorBodySettles(i) ==
    /\ i \in DOMAIN ui.requests /\ ui.requests[i] = "error_body"
    /\ ui' = [showError(ui, "HTTP error") EXCEPT !.requests[i] = "done",
                                                 !.event = "error_body",
                                                 !.request = i]
    /\ UNCHANGED <<viewport, engines, svgError, thrown, parts>>

\* the body of an ok response is read: it cannot be parsed and the catch
\* block runs, it has an error field, it has a view_url and the page is sent
\* there, or its data is displayed
BodySettles(i) ==
    /\ i \in DOMAIN ui.requests /\ ui.requests[i] = "body"
    /\ LET u == [ui EXCEPT !.requests[i] = "done", !.event = "body", !.request = i]
       IN  \/ /\ ui' = showError(showLoading(u, FALSE), "Request failed")
              /\ UNCHANGED <<viewport, engines, svgError, thrown>>
           \/ /\ ui' = showError(u, "data.error")
              /\ UNCHANGED <<viewport, engines, svgError, thrown>>
           \/ /\ ui' = [u EXCEPT !.location = Some(i)]
              /\ UNCHANGED <<viewport, engines, svgError, thrown>>
           \/ \E data \in {None} \cup { Some(a) : a \in UiAnalyses } :
                  displayAnalysisData(u, data, i, "click")
    /\ UNCHANGED parts

\* the navigation started by window.location.href = data.view_url replaces
\* the document: its elements are gone and its pending requests with it
Unload ==
    /\ ui.location # None /\ ~ui.gone
    /\ ui' = [ui EXCEPT !.gone = TRUE,
                        !.loading = FALSE,
                        !.error = FALSE,
                        !.results = FALSE,
                        !.requests = [k \in DOMAIN @ |->
                                         IF @[k] = "done" THEN "done" ELSE "aborted"],
                        !.event = "unload"]
    /\ UNCHANGED <<viewport, engines, svgError, thrown, parts>>

UiNext ==
    \/ Load
    \/ \E input \in Inputs : handleAnalyzeClick(input)
    \/ \E i \in 1..MaxClicks : FetchSettles(i)
    \/ \E i \in 1..MaxClicks : ErrorBodySettles(i)
    \/ \E i \in 1..MaxClicks : BodySettles(i)
    \/ Unload

UiSpec == UiInit /\ [][UiNext]_vars

\* every request made is settled, and every body received is read, unless
\* the document is replaced first
UiFairSpec ==
    /\ UiSpec
    /\ \A i \in 1..MaxClicks :
          /\ WF_vars(FetchSettles(i))
          /\ WF_vars(ErrorBodySettles(i))
          /\ WF_vars(BodySettles(i))

----------------------------------------------------------------------------
(* Properties *)

\* ceil(log(alphaMin) / log(1 - alphaDecay)): the ticks of a run
MaxTicks == 300

Engines == { engines[i] : i \in DOMAIN engines }

\* a main post, whichever property tags it
IsRoot(node) == node.tweet_type = "main_post" \/ node.type = "main_post"

Roots(e) == { i \in DOMAIN e.nodes : IsRoot(e.nodes[i]) }

\* the anchor: the middle of the viewport
AnchorX(e) == Div(e.width * FixedPoint.px, 2)
AnchorY(e) == Div(e.height * FixedPoint.px, 2)

\* C1 (as claimed): in a graph with one main post, tagged through tweet_type
\* or through type, the main post is at the anchor after every tick.
C1_RootAtAnchor ==
    \A e \in Engines : \A i \in Roots(e) :
        (Cardinality(Roots(e)) = 1 /\ e.ticks >= 1)
            => (e.nodes[i].x = AnchorX(e) /\ e.nodes[i].y = AnchorY(e))

\* C2: no simulation ticks more than MaxTicks times, and one that has ticked
\* MaxTicks times has reported its end (its timer is stopped).
C2_DoneWithinMaxTicks ==
    \A e \in Engines : e.ticks <= MaxTicks /\ (e.running => e.ticks < MaxTicks)

\* a single main post with no link has run to its end
C2_Witness ==
    \E e \in Engines :
        Len(e.nodes) = 1 /\ e.data.links = <<>> /\ e.ticks = MaxTicks /\ ~e.running

Superseded == 1..(Len(engines) - 1)

\* C4 (as claimed): a simulation replaced by a newer one is stopped: from
\* then on it never ticks and none of its nodes moves.
C4_StoppedNeverTicks ==
    [][\A i \in Superseded : engines'[i] = engines[i]]_vars

\* the received links have an end that is the id of no node
DanglingEdge(e) ==
    \E k \in DOMAIN e.data.links :
        \/ FindNode(e.nodes, e.data.links[k].source) = 0
        \/ FindNode(e.nodes, e.data.links[k].target) = 0

\* C5 (as claimed): no simulation exists for a graph with two main posts or
\* with a link end that is no node id.
C5_MalformedGraphRejected ==
    \A e \in Engines : Cardinality(Roots(e)) <= 1 /\ ~DanglingEdge(e)

\* a non-root node whose parent, the source of the link to it, is no node
OrphanNode(e) ==
    \E k \in DOMAIN e.data.links :
        /\ FindNode(e.nodes, e.data.links[k].source) = 0
        /\ FindNode(e.nodes, e.data.links[k].target) # 0

\* C6 (as claimed): no simulation exists for records with no main post, with
\* more than one, or with a node whose parent is not among them.
C6_MalformedRecordsRejected ==
    \A e \in Engines : Cardinality(Roots(e)) = 1 /\ ~OrphanNode(e)

MidpointX(e) == AnchorX(e)

BandWidth(e) == e.width * 2 * FixedPoint.px

NonRoots(e) == { i \in DOMAIN e.nodes : ~IsRoot(e.nodes[i]) }

Quotes(e) == { i \in DOMAIN e.nodes : e.nodes[i].type = "quote_tweet" }

\* the X a node is fixed at, or pulled to by forceX when it is not fixed
TargetX(e, i) ==
    IF e.nodes[i].fx # None THEN e.nodes[i].fx[1] ELSE e.params[i].xz

\* the level the page places a node by: its qt_level, a quote tweet counting
\* as level 1 at least, a negative level as level 0
PageLevel(node) ==
    IF node.type = "quote_tweet" THEN Max(1, node.qt_level) ELSE Max(0, node.qt_level)

ParentOf(e, i) ==
    LET ks == { k \in DOMAIN e.data.links : e.data.links[k].target = e.nodes[i].id }
    IN  IF ks = {} THEN 0
        ELSE FindNode(e.nodes, e.data.links[CHOOSE k \in ks : TRUE].source)

\* C10 (as claimed): the root has level 0; a quote tweet has its parent's
\* level plus one when the parent is a quote tweet and level 1 otherwise; a
\* reply has its parent's level; so no level is negative.
C10_LevelsFollowParents ==
    \A e \in Engines :
        (Cardinality(Roots(e)) = 1 /\ ~DanglingEdge(e)) =>
            \A i \in DOMAIN e.nodes :
                LET n == e.nodes[i]
                    level == IF n.type = "quote_tweet" THEN QuoteLevel(n.qt_level)
                             ELSE n.qt_level
                    p == ParentOf(e, i)
                    parentLevel == IF e.nodes[p].type = "quote_tweet"
                                   THEN QuoteLevel(e.nodes[p].qt_level)
                                   ELSE e.nodes[p].qt_level
                IN  /\ level >= 0
                    /\ IsRoot(n) => level = 0
                    /\ (~IsRoot(n) /\ p # 0) =>
                          level = IF n.type = "quote_tweet"
                                  THEN (IF e.nodes[p].type = "quote_tweet"
                                        THEN parentLevel + 1 ELSE 1)
                                  ELSE parentLevel

Circles == { circles[i] : i \in DOMAIN circles }

\* circles of nodes whose likes are a count: a number >= 0
Counted == { c \in Circles : c.likes.t = "number" /\ c.likes.v >= 0 }

baseRadius == 5 * FixedPoint.px

maxRadius == 20 * FixedPoint.px

\* C11: the radius of a node with likes >= 0 is between 5 and 20, never
\* smaller for more likes, 20 from 1023 likes on, and larger for 10,000
\* likes than for none.
C11_RadiusMonotoneClamped ==
    /\ \A c \in Counted :
          /\ c.r.t = "number" /\ baseRadius <= c.r.v /\ c.r.v <= maxRadius
          /\ c.likes.v >= 1023 => c.r.v = maxRadius
    /\ \A c, d \in Counted :
          /\ c.likes.v <= d.likes.v => c.r.v <= d.r.v
          /\ (c.likes.v = 0 /\ d.likes.v = 10000) => c.r.v < d.r.v

C11_Witness ==
    /\ Len(circles) = 2
    /\ circles[1].likes = Number(0) /\ circles[1].r = Number(baseRadius)
    /\ circles[2].likes = Number(10000) /\ circles[2].r = Number(maxRadius)

\* likes that are missing, not a number, or negative
Degraded(likes) == likes.t # "number" \/ likes.v < 0

\* C12 (as claimed): a node whose likes are missing, not a number or negative
\* is drawn exactly as a node with 0 likes: same radius, same collision
\* radius, and never a NaN radius.
C12_DegradedLikesAsZero ==
    \A c \in Circles :
        Degraded(c.likes) =>
            /\ c.r = Number(getNodeRadius(0))
            /\ c.collide = Number(getNodeRadius(0) + 8 * FixedPoint.px)

\* the simulations whose timer is still active
Ticking == { i \in DOMAIN engines : engines[i].running }

\* C13 (as claimed): displaying a new analysis discards the previous
\* simulation, so at most one simulation is ticking at any moment.
C13_OneSimulationTicking == Cardinality(Ticking) <= 1

C15_EmptyViewRejected ==
    \A e \in Engines : e.width > 0 /\ e.height > 0

\* the padding of the collision force: the 8 px added to each node's radius
Padding == 8 * FixedPoint.px

Distance(a, b) == Hypot(a.x - b.x, a.y - b.y)

RepliesToFirstQuotes(e) ==
    { i \in DOMAIN e.nodes :
        /\ e.nodes[i].type = "reply"
        /\ ParentOf(e, i) # 0
        /\ e.nodes[ParentOf(e, i)].type = "quote_tweet"
        /\ PageLevel(e.nodes[ParentOf(e, i)]) = 1 }

\* C17 (as claimed): a reply with level L >= 1 is pulled to the X at which a
\* quote tweet of level L is fixed, and at the end of the run the reply to a
\* level-1 quote tweet is within 0.15 bandWidth of that quote tweet's x.
C17_ReplyNearItsQuote ==
    \A e \in Engines :
        (e.forces /\ e.width > 0) =>
            /\ \A i \in DOMAIN e.nodes :
                  (e.nodes[i].type = "reply" /\ e.nodes[i].qt_level >= 1) =>
                      TargetX(e, i) = QuoteLineX(e.nodes[i].qt_level, e.width)
            /\ ~e.running =>
                  \A i \in RepliesToFirstQuotes(e) :
                      Abs(e.nodes[i].x - e.nodes[ParentOf(e, i)].x) * 100
                          < 15 * BandWidth(e)

Springs == { springs[k] : k \in DOMAIN springs }

\* the link has the main post at one of its ends
TouchesRoot(l) == l.source = "main_post" \/ l.target = "main_post"

\* C18 (as claimed): a link that touches the root at either end is strictly
\* longer and strictly stronger than every link between two non-root nodes.
C18_RootLinksLongerAndStronger ==
    \A a, b \in Springs :
        (TouchesRoot(a) /\ ~TouchesRoot(b)) =>
            a.distance > b.distance /\ a.strength > b.strength

\* C18 (amended): a link that touches the main post (by tweet_type) at either
\* end has strength 0.7 and every other link 0.4.  The rest length goes by the
\* source: from the main post 180 to a quote tweet and 120 to any other node;
\* from a quote tweet 70 to a reply and 150 to a quote tweet; 80 for every
\* other link, those that point at the main post included.  So only the links
\* from the main post to a quote tweet are longer than every other link.
C18_SpringsByEndKinds ==
    /\ \A a \in Springs :
          /\ a.strength = IF TouchesRoot(a) THEN 70 ELSE 40
          /\ a.source = "main_post" =>
                a.distance = FixedPoint.px * (IF a.target = "quote_tweet" THEN 180 ELSE 120)
          /\ a.source = "quote_tweet" =>
                a.distance = FixedPoint.px * (CASE a.target = "reply" -> 70
                                                [] a.target = "quote_tweet" -> 150
                                                [] OTHER -> 80)
          /\ a.source \in {"reply", "undefined"} => a.distance = 80 * FixedPoint.px
    /\ \A a, b \in Springs :
          /\ (TouchesRoot(a) /\ ~TouchesRoot(b)) => a.strength > b.strength
          /\ (a.source = "main_post" /\ a.target = "quote_tweet"
                /\ ~(b.source = "main_post" /\ b.target = "quote_tweet")) =>
                a.distance > b.distance

C18_Witness ==
    /\ Len(springs) = 2
    /\ springs[1].source = "main_post" /\ springs[1].target = "reply"
    /\ springs[2].source = "quote_tweet" /\ springs[2].target = "quote_tweet"
    /\ springs[1].distance < springs[2].distance
    /\ springs[1].strength > springs[2].strength

Positions(e) == [i \in DOMAIN e.nodes |-> <<e.nodes[i].x, e.nodes[i].y>>]

\* C20: what the tick listener has drawn is the state after one whole tick:
\* nothing before the first tick, and after every tick the position of
\* every node as that same tick left it.
C20_DrawnAfterWholeTick ==
    \A e \in Engines :
        e.forces => e.drawn = IF e.ticks = 0 THEN <<>> ELSE Positions(e)

C20_Witness ==
    \E e \in Engines :
        /\ e.forces /\ e.ticks >= 2 /\ Len(e.nodes) = MaxNodes
        /\ e.drawn = Positions(e)
        /\ \A i \in DOMAIN e.nodes : e.nodes[i].fx = None => e.nodes[i].vy # 0

\* C21 (as claimed): building the laid-out graph leaves the received records
\* as they were: no node object of the data has a fixed coordinate or a level
\* written to it, and no link of the data has its ends replaced.
C21_ReceivedRecordsUnchanged ==
    \A e \in Engines :
        /\ \A i \in DOMAIN e.nodes :
              /\ e.nodes[i].fx = None
              /\ e.nodes[i].fy = None
              /\ Some(e.nodes[i].qt_level) = e.data.nodes[i].qt_level
        /\ e.links = <<>>

\* the vertical line a quote tweet is fixed on
QuoteLine(e, i) == e.nodes[i].fx[1]

\* C22 (as claimed): in a view of positive width, of two quote tweets received
\* with different qt_level values the one with the larger value is fixed on a
\* line strictly further to the right, and the line of every quote tweet is
\* strictly to the right of the main post.
C22_QuoteLinesOrdered ==
    \A e \in Engines :
        e.width > 0 =>
            /\ \A i, j \in Quotes(e) :
                  LET li == e.data.nodes[i].qt_level
                      lj == e.data.nodes[j].qt_level
                  IN  (li # None /\ lj # None /\ li[1] >= 0 /\ li[1] < lj[1])
                          => QuoteLine(e, i) < QuoteLine(e, j)
            /\ \A i \in Quotes(e) : \A r \in Roots(e) :
                  Some(e.nodes[r].id) = e.mainPostId
                      => QuoteLine(e, i) > e.nodes[r].x

\* the names of the rendered cluster columns, in document order
ColumnNames == [k \in DOMAIN ui.container.clusters |-> ui.container.clusters[k].name]

\* displayClusters has filled the container
Rendered == ui.container # EmptyContainer

\* the keys of the cluster_details rendered that are no standard cluster
OtherKeys ==
    IF ui.cluster_details = None THEN {}
    ELSE { ui.cluster_details[1][k].name : k \in DOMAIN ui.cluster_details[1] }
             \ { StandardClusters[k] : k \in DOMAIN StandardClusters }

\* the nine standard clusters first and in the fixed order, every other key
\* once after them, and no tweet-list id twice
NineThenOthers ==
    /\ Len(ColumnNames) >= 9
    /\ SubSeq(ColumnNames, 1, 9) =
          << "positive_agrees", "positive_neutral", "positive_disagrees",
             "neutral_agrees", "neutral_neutral", "neutral_disagrees",
             "negative_agrees", "negative_neutral", "negative_disagrees" >>
    /\ \A key \in OtherKeys :
          Cardinality({ k \in DOMAIN ColumnNames : ColumnNames[k] = key }) = 1
    /\ \A k \in DOMAIN ColumnNames : k > 9 => ColumnNames[k] \in OtherKeys
    /\ \A j, k \in DOMAIN ColumnNames :
          j # k => ui.container.clusters[j].id # ui.container.clusters[k].id

\* C29 (as claimed): whatever displayClusters was given, the container holds
\* the nine standard clusters in the fixed order, then every other key of
\* cluster_details once, with pairwise distinct tweet-list ids, also after
\* repeated calls.
C29_EachClusterOnce == Rendered => NineThenOthers

\* C29 (amended): given cluster_details, the container holds the nine
\* standard clusters in the fixed order, present in the data or not, then
\* every other key once, with pairwise distinct tweet-list ids, also after
\* repeated calls; given no cluster_details it holds the notice "Cluster data
\* not available." and no cluster.
C29_EachClusterOnceOfDetails ==
    Rendered =>
        IF ui.cluster_details = None
        THEN ui.container.notice /\ ui.container.clusters = <<>>
        ELSE ~ui.container.notice /\ NineThenOthers

\* a second call has rendered eleven columns over other ones, toggled before
C29_Witness ==
    /\ ui.event = "clusters"
    /\ Len(ui.container.clusters) = 11
    /\ ui.container.clusters[10].name = "sarcastic"
    /\ ui.container.clusters[1].tweets = 0
    /\ ui.container.clusters[11].id = 10

\* C30: after any toggle clicks and displayClusters calls, the label of every
\* cluster's button is "Hide Replies" exactly when its tweet list is displayed
\* and "Show Replies" exactly when it is hidden; a click flips the list of
\* its cluster and nothing else; displayClusters leaves every list hidden.
C30_LabelMatchesList ==
    /\ [](\A k \in DOMAIN ui.container.clusters :
             LET c == ui.container.clusters[k]
             IN  /\ c.label = "Hide Replies" <=> c.listShown
                 /\ c.label = "Show Replies" <=> ~c.listShown)
    /\ [][ /\ ui'.event = "toggle" =>
                \E k \in DOMAIN ui.container.clusters :
                    /\ DOMAIN ui'.container.clusters = DOMAIN ui.container.clusters
                    /\ ui'.container.clusters[k].listShown = ~ui.container.clusters[k].listShown
                    /\ \A j \in DOMAIN ui.container.clusters :
                          j # k => ui'.container.clusters[j] = ui.container.clusters[j]
           /\ ui'.event = "clusters" =>
                \A k \in DOMAIN ui'.container.clusters :
                    ~ui'.container.clusters[k].listShown ]_vars

\* a list shown and hidden again, another shown, after a second displayClusters
C30_Witness ==
    /\ ui.event = "toggle"
    /\ Len(ui.container.clusters) = 10
    /\ ui.container.clusters[10].listShown
    /\ ui.container.clusters[10].label = "Hide Replies"
    /\ ui.container.clusters[1].label = "Show Replies"
    /\ ~ui.container.clusters[1].listShown

\* the requests whose fetch has not settled
InFlight == { i \in DOMAIN ui.requests : ui.requests[i] = "fetch" }

\* C23 (as claimed): under any interleaving of clicks and responses the
\* loading indicator is visible whenever a request is still in flight.
C23_LoadingWhileInFlight == InFlight # {} => ui.loading

\* C24 (as claimed): a response that displays its analysis or sends the page
\* to its view is the response to the most recent click.
C24_LatestClickWins ==
    (ui.event = "body" /\ (ui.shown = Some(ui.request) \/ ui.location = Some(ui.request)))
        => ui.request = Len(ui.requests)

\* C25 (as claimed): the error message and the results container are never
\* both visible.
C25_ErrorAndResultsExclusive == ~(ui.error /\ ui.results)

\* request i is over: handled to its end, or gone with the document
Finished(i) == i \in DOMAIN ui.requests /\ ui.requests[i] \in {"done", "aborted"}

\* C26: a request that is settled and whose body is read is handled to its
\* end, whatever its outcome, and then the loading indicator is hidden unless
\* another request is in flight.
C26_LoadingHiddenInTheEnd ==
    \A i \in 1..MaxClicks :
        (i \in InFlight) ~> (Finished(i) /\ (ui.loading => InFlight # {}))

\* a click sent the page to its view and the indicator is hidden
C26_Witness ==
    /\ ui.event = "body" /\ ui.request = 1
    /\ ui.location = Some(1)
    /\ ui.requests = <<"done">>
    /\ ~ui.loading

\* C27 (as claimed): when the analysis last displayed carried valid, enabled
\* graph data, the graph section is visible and the simulation created for
\* it is running.
C27_GraphSectionShown ==
    (ui.graph = "valid" /\ ui.results)
        => (ui.section /\ engines # <<>> /\ engines[Len(engines)].running)

\* C28: a click with an empty URL shows the error message and changes
\* nothing else: no request is sent, the loading indicator, the results
\* container and what is rendered in it stay as they are.
C28_EmptyClickOnlyShowsError ==
    [][ ui'.event = "empty_click" =>
            /\ ui' = [ui EXCEPT !.error = TRUE,
                                !.message = "Please enter a Tweet URL.",
                                !.event = "empty_click"]
            /\ UNCHANGED <<viewport, engines, svgError, thrown>> ]_vars

\* an empty click while results are rendered and a request is in flight
C28_Witness ==
    /\ ui.event = "empty_click"
    /\ ui.error
    /\ ui.results /\ ui.container.clusters # <<>> /\ ui.shown = Some(1)
    /\ ui.loading /\ InFlight = {2}

====
